---- MODULE Spec2Model ----
(***************************************************************************)
(* RepoMind: the ingestion and retrieval pipeline.                         *)
(*   src/src/retrieval.py  Retriever.__init__, _load_index, search         *)
(*   src/src/ingestion.py  parse_code_files, chunk_documents_by_language,  *)
(*                         extract_repo_name, clone_repo, ingest_repo      *)
(*   src/src/database.py   get_vector_store                                *)
(*   src/src/app.py        handle_ingestion, retrieve_and_chat             *)
(*   src/src/config.py     TOP_K, RERANK_TOP_K                             *)
(* Python values: None is the empty tuple, a given optional argument x is  *)
(* the one-element tuple <<x>>; a str is the tuple of its characters.      *)
(***************************************************************************)
EXTENDS Integers, Sequences, FiniteSets, TLC

VARIABLES
    collection,   \* the persisted Chroma collection "repomind_codebase": its entries
    retriever,    \* the Retriever object in use: <<>> or <<[use_reranker, has_reranker]>>
    call,         \* the last Retriever.search call: arguments, what it did, how it ended
    load,         \* the last Retriever._load_index call: what it tried, how it ended
    loadLog,      \* every (cause, exception type) _load_index has failed with so far
    chunking,     \* the last chunk_documents_by_language call
    harvest,      \* the last parse_code_files call
    clones,       \* the file system at the paths clone_repo computes: <<>> or a directory
    ingest,       \* the running clone_repo / ingest_repo / handle_ingestion call
    query,        \* the running retrieve_and_chat call
    stdout        \* sys.stdout: the stream it is bound to, and who wrote to the capture buffer

vars == <<collection, retriever, call, load, loadLog, chunking, harvest, clones, ingest,
          query, stdout>>

\* ------------------------------------------------------------------ bounds
MaxEntries == 6
MaxTopK == 3
MaxQueryLen == 2
MaxDocs == 3
MaxFiles == 2
MaxStored == 5

\* --------------------------------------------------------------- constants
TOP_K == 15
RERANK_TOP_K == 5

None == <<>>
Some(x) == <<x>>

Min(a, b) == IF a <= b THEN a ELSE b

\* ------------------------------------------------------------------ strings
Chars == {" ", "a"}
IsSpace(c) == c \in {" ", "\t", "\n"}

RECURSIVE lstrip(_)
lstrip(s) == IF s = <<>> THEN s
             ELSE IF IsSpace(Head(s)) THEN lstrip(Tail(s)) ELSE s

RECURSIVE rstrip(_)
rstrip(s) == IF s = <<>> THEN s
             ELSE IF IsSpace(s[Len(s)]) THEN rstrip(SubSeq(s, 1, Len(s) - 1)) ELSE s

\* a mutant of strip: nothing is stripped
strip_identity(s) == s

\* str.strip()
strip(s) == rstrip(lstrip(s))

\* `not query_text or not query_text.strip()` (retrieval.py:81)
query_is_empty(query_text) == query_text = <<>> \/ strip(query_text) = <<>>

Queries == UNION {[1..n -> Chars] : n \in 0..MaxQueryLen}

\* --------------------------------------------------------------- the store
\* The collection holds entries 1..n in insertion order.
Entries(n) == [i \in 1..n |-> [id |-> i]]

\* The embedding similarity of a query and an entry (stage 1) and the
\* cross-encoder's relevance of the pair (stage 2): two deterministic
\* functions of (query, entry) on scales that are not comparable.
Similarity(q, e) == (e.id * 3 + Len(q)) % 4
RerankScore(q, e) == (e.id * 5 + Len(q)) % 7

SimScore(q, e) == [stage |-> "similarity", val |-> Similarity(q, e)]
CrossScore(q, e) == [stage |-> "rerank", val |-> RerankScore(q, e)]

RECURSIVE InsertByScore(_, _)
InsertByScore(n, s) ==
    IF s = <<>> THEN <<n>>
    ELSE IF Head(s).score.val >= n.score.val
         THEN <<Head(s)>> \o InsertByScore(n, Tail(s))
         ELSE <<n>> \o s

\* a stable sort by descending score
RECURSIVE SortByScore(_)
SortByScore(s) ==
    IF s = <<>> THEN <<>>
    ELSE InsertByScore(s[Len(s)], SortByScore(SubSeq(s, 1, Len(s) - 1)))

\* Every entry of the collection as a scored node, best match first.
Ranked(coll, q) ==
    SortByScore([i \in 1..Len(coll) |-> [id |-> coll[i].id, score |-> SimScore(q, coll[i])]])

\* VectorIndexRetriever(...).retrieve(query_text) (retrieval.py:96-102): the
\* vector store answers with `found` candidates in rank order.  The count is
\* the store's, not the caller's: search itself tests len(nodes) > 0 and
\* len(nodes) > top_k.
retrieve(coll, q, found) == SubSeq(Ranked(coll, q), 1, found)

\* self.reranker.postprocess_nodes(nodes, query_str=query_text), the reranker
\* built with top_n=RERANK_TOP_K (retrieval.py:16-19, 108-113): every node's
\* score is overwritten with the rerank score, the best top_n are returned.
postprocess_nodes(nodes, q) ==
    SubSeq(SortByScore([i \in 1..Len(nodes) |->
                           [id |-> nodes[i].id, score |-> CrossScore(q, nodes[i])]]),
           1, Min(Len(nodes), RERANK_TOP_K))

\* -------------------------------------------------- Retriever._load_index
\* load_index_from_storage(...) (retrieval.py:33-36) returns the index or
\* raises; the handlers tell three classes apart.
FirstLoadOutcomes == {"ok", "ValueError", "KeyError", "OtherError"}

\* VectorStoreIndex.from_vector_store(...) (retrieval.py:46-49): the handler
\* at 52-53 takes its raising to mean that the vector store is empty.
from_vector_store(coll) == IF Len(coll) = 0 THEN "Exception" ELSE "ok"

\* a mutant of the first handler: KeyError is not caught by it
falls_back_value_error_only(first) == first = "ValueError"

\* `except (ValueError, KeyError):` (retrieval.py:39)
falls_back(first) == first \in {"ValueError", "KeyError"}

NoLoad == [first |-> "none", fallback |-> FALSE, result |-> "none", via |-> "none",
           etype |-> "none", cause |-> "none", entries |-> 0]

\* Retriever._load_index (retrieval.py:21-65); `first` is what the first
\* load attempt does.
load_index(coll, first) ==
    IF first = "ok"
    THEN [first |-> first, fallback |-> FALSE, result |-> "index", via |-> "storage",
          etype |-> "none", cause |-> "none", entries |-> Len(coll)]
    ELSE IF falls_back(first)
    THEN IF from_vector_store(coll) = "ok"
         THEN [first |-> first, fallback |-> TRUE, result |-> "index",
               via |-> "vector_store", etype |-> "none", cause |-> "none",
               entries |-> Len(coll)]
         ELSE \* raise ValueError("No index found and vector store appears to be empty ...")
              [first |-> first, fallback |-> TRUE, result |-> "raise", via |-> "none",
               etype |-> "ValueError", cause |-> "empty", entries |-> Len(coll)]
    ELSE \* except Exception: raise ValueError("Failed to load index: ...")
         [first |-> first, fallback |-> FALSE, result |-> "raise", via |-> "none",
          etype |-> "ValueError", cause |-> "other", entries |-> Len(coll)]

\* ------------------------------------------------------- Retriever.search
\* a mutant of initial_k: no oversampling
initial_k_no_oversampling(top_k, rerank) == top_k

\* initial_k = top_k * 2 if rerank else top_k (retrieval.py:94)
initial_k(top_k, rerank) == IF rerank THEN top_k * 2 ELSE top_k

\* a mutant of the rerank test: an empty candidate list is reranked too
should_rerank_even_empty(rerank, nodes) == rerank

\* `if rerank and len(nodes) > 0:` (retrieval.py:106)
should_rerank(rerank, nodes) == rerank /\ Len(nodes) > 0

\* a mutant of the truncation: the stage-1 list is returned whole
truncate_nothing(rerank, nodes, top_k) == nodes

\* `elif not rerank and len(nodes) > top_k: nodes = nodes[:top_k]`
\* (retrieval.py:115-117)
truncate(rerank, nodes, top_k) ==
    IF ~rerank /\ Len(nodes) > top_k THEN SubSeq(nodes, 1, top_k) ELSE nodes

NoCall == [query |-> <<>>, top_k |-> None, rerank |-> None, self |-> <<>>,
           outcome |-> "none", similarity_top_k |-> <<>>, stage1 |-> <<>>,
           reranker_calls |-> 0, result |-> <<>>]

\* Retriever.search (retrieval.py:67-119) on the retriever `self` over the
\* collection `coll`; `found` is how many candidates the store answers with.
search(self, coll, query_text, top_k, rerank, found) ==
    IF query_is_empty(query_text)
    THEN \* raise ValueError("Query text cannot be empty")
         [query |-> query_text, top_k |-> top_k, rerank |-> rerank, self |-> self,
          outcome |-> "ValueError", similarity_top_k |-> <<>>, stage1 |-> <<>>,
          reranker_calls |-> 0, result |-> <<>>]
    ELSE LET k == IF top_k = None THEN TOP_K ELSE top_k[1]
             r == IF rerank = None THEN self.use_reranker ELSE rerank[1]
             ik == initial_k(k, r)
             nodes == retrieve(coll, query_text, found)
             base == [query |-> query_text, top_k |-> top_k, rerank |-> rerank,
                      self |-> self, outcome |-> "returned",
                      similarity_top_k |-> <<ik>>, stage1 |-> nodes,
                      reranker_calls |-> 0, result |-> <<>>]
         IN IF should_rerank(r, nodes)
            THEN IF self.has_reranker
                 THEN [base EXCEPT !.reranker_calls = 1,
                                   !.result = postprocess_nodes(nodes, query_text)]
                 ELSE \* self.reranker was never assigned (retrieval.py:14-19)
                      [base EXCEPT !.outcome = "AttributeError"]
            ELSE [base EXCEPT !.result = truncate(r, nodes, k)]

\* ------------------------------------------- chunk_documents_by_language
\* A document is its identity, the "language" of its metadata, which may be
\* absent, and its content: the number of characters, whether they are all
\* whitespace, and how many characters one token of the text splitter's
\* tokenizer spans in it.  A node is a chunk: the document it is cut from,
\* the splitter that cut it and its number of characters.
Languages == {"python", "csharp", "php"}
LanguageMetadata == {None} \cup {Some(l) : l \in Languages}

\* a mutant of the registry: "php" is given a grammar too
ast_supported_langs_with_php ==
    {"python", "javascript", "typescript", "java", "go", "rust", "cpp", "c", "csharp",
     "php"}

\* parser_lang_map (ingestion.py:271-281)
ast_supported_langs ==
    {"python", "javascript", "typescript", "java", "go", "rust", "cpp", "c", "csharp"}
parser_lang_map(lang) == IF lang = "csharp" THEN "c_sharp" ELSE lang

\* doc.metadata.get("language", "python") (ingestion.py:289)
language_of(doc) == IF doc.language = None THEN "python" ELSE doc.language[1]

\* CodeSplitter(language=lang, parser=parser, chunk_lines=40,
\* chunk_lines_overlap=10, max_chars=3000) (ingestion.py:307-313)
CodeSplitter(lang) ==
    [kind |-> "CodeSplitter", language |-> lang, parser |-> parser_lang_map(lang),
     chunk_lines |-> 40, chunk_lines_overlap |-> 10, max_chars |-> 3000]

\* SimpleNodeParser.from_defaults(chunk_size=1024, chunk_overlap=200)
\* (ingestion.py:321-324, 333-336)
SimpleNodeParser ==
    [kind |-> "SimpleNodeParser", chunk_size |-> 1024, chunk_overlap |-> 200]

RECURSIVE CodeCuts(_, _)
\* CodeSplitter cuts the text into consecutive pieces of at most max_chars
\* characters (ingestion.py:312).
CodeCuts(chars, max_chars) ==
    IF chars = 0 THEN <<>>
    ELSE IF chars <= max_chars THEN <<chars>>
         ELSE <<max_chars>> \o CodeCuts(chars - max_chars, max_chars)

RECURSIVE TextCuts(_, _, _)
\* SimpleNodeParser cuts the text into pieces of at most chunk_size tokens,
\* each starting chunk_overlap tokens before the end of the one before
\* (ingestion.py:321-324).
TextCuts(tokens, chunk_size, chunk_overlap) ==
    IF tokens = 0 THEN <<>>
    ELSE IF tokens <= chunk_size THEN <<tokens>>
         ELSE <<chunk_size>>
              \o TextCuts(tokens - (chunk_size - chunk_overlap), chunk_size, chunk_overlap)

\* the number of tokens of a document's text
tokens_of(doc) == (doc.chars + doc.chars_per_token - 1) \div doc.chars_per_token

\* the nodes a splitter derives from one document
ChunksOf(splitter, doc) ==
    IF splitter.kind = "CodeSplitter"
    THEN LET cuts == CodeCuts(doc.chars, splitter.max_chars)
         IN [i \in 1..Len(cuts) |-> [doc |-> doc.id, by |-> splitter, chars |-> cuts[i]]]
    ELSE LET cuts == TextCuts(tokens_of(doc), splitter.chunk_size, splitter.chunk_overlap)
         IN [i \in 1..Len(cuts) |->
                [doc |-> doc.id, by |-> splitter,
                 chars |-> Min(cuts[i] * doc.chars_per_token, doc.chars)]]

RECURSIVE NodesOf(_, _)
NodesOf(splitter, docs) ==
    IF docs = <<>> THEN <<>>
    ELSE ChunksOf(splitter, Head(docs)) \o NodesOf(splitter, Tail(docs))

\* splitter.get_nodes_from_documents(lang_docs): the documents are split one
\* after the other; when the split of the fail_at-th raises, the call raises
\* and the nodes made so far stay inside it.
get_nodes_from_documents(splitter, docs, fail_at) ==
    IF fail_at \in 1..Len(docs)
    THEN [raised |-> TRUE, nodes |-> NodesOf(splitter, SubSeq(docs, 1, fail_at - 1))]
    ELSE [raised |-> FALSE, nodes |-> NodesOf(splitter, docs)]

RECURSIVE FirstSeen(_)
\* the keys of docs_by_lang in insertion order (ingestion.py:287-292)
FirstSeen(langs) ==
    IF langs = <<>> THEN <<>>
    ELSE LET before == FirstSeen(SubSeq(langs, 1, Len(langs) - 1))
             l == langs[Len(langs)]
         IN IF \E i \in 1..Len(before) : before[i] = l THEN before ELSE Append(before, l)

GroupKeys(documents) == FirstSeen([i \in 1..Len(documents) |-> language_of(documents[i])])

RECURSIVE DocsOfLang(_, _)
\* docs_by_lang[lang] (ingestion.py:287-292)
DocsOfLang(documents, lang) ==
    IF documents = <<>> THEN <<>>
    ELSE IF language_of(Head(documents)) = lang
         THEN <<Head(documents)>> \o DocsOfLang(Tail(documents), lang)
         ELSE DocsOfLang(Tail(documents), lang)

IdsOf(docs) == [i \in 1..Len(docs) |-> docs[i].id]

\* a mutant of the except block: the error is swallowed, nothing is re-split
text_fallback_nothing(lang, lang_docs) ==
    [nodes |-> <<>>, calls |-> <<>>]

\* the except block (ingestion.py:330-339)
text_fallback(lang, lang_docs) ==
    LET r == get_nodes_from_documents(SimpleNodeParser, lang_docs, 0)
    IN [nodes |-> r.nodes,
        calls |-> <<[lang |-> lang, step |-> "SimpleNodeParser", docs |-> IdsOf(lang_docs),
                     raised |-> FALSE, made |-> Len(r.nodes)]>>]

\* What the structural attempt for a group does: nothing wrong, get_parser
\* raises, or the split of the group's doc-th document raises.
NoFault == [step |-> "none", doc |-> 0]
ParserFault == [step |-> "get_parser", doc |-> 0]
SplitFault(j) == [step |-> "split", doc |-> j]

\* One pass of the loop body (ingestion.py:297-339) for a language group.
process_language_group(lang, lang_docs, fault) ==
    IF lang \in ast_supported_langs
    THEN IF fault.step = "get_parser"
         THEN LET fb == text_fallback(lang, lang_docs)
              IN [nodes |-> fb.nodes,
                  calls |-> <<[lang |-> lang, step |-> "get_parser", docs |-> <<>>,
                               raised |-> TRUE, made |-> 0]>> \o fb.calls]
         ELSE LET r == get_nodes_from_documents(CodeSplitter(lang), lang_docs,
                                                fault.doc)
                  p == [lang |-> lang, step |-> "get_parser", docs |-> <<>>,
                        raised |-> FALSE, made |-> 0]
                  c == [lang |-> lang, step |-> "CodeSplitter",
                        docs |-> IdsOf(lang_docs), raised |-> r.raised,
                        made |-> Len(r.nodes)]
              IN IF r.raised
                 THEN LET fb == text_fallback(lang, lang_docs)
                      IN [nodes |-> fb.nodes, calls |-> <<p, c>> \o fb.calls]
                 ELSE [nodes |-> r.nodes, calls |-> <<p, c>>]
    ELSE LET r == get_nodes_from_documents(SimpleNodeParser, lang_docs, 0)
         IN [nodes |-> r.nodes,
             calls |-> <<[lang |-> lang, step |-> "SimpleNodeParser",
                          docs |-> IdsOf(lang_docs), raised |-> FALSE,
                          made |-> Len(r.nodes)]>>]

RECURSIVE process_groups(_, _, _)
\* the loop over docs_by_lang.items() (ingestion.py:294-341)
process_groups(keys, documents, faults) ==
    IF keys = <<>> THEN [nodes |-> <<>>, calls |-> <<>>]
    ELSE LET g == process_language_group(Head(keys), DocsOfLang(documents, Head(keys)),
                                         faults[Head(keys)])
             rest == process_groups(Tail(keys), documents, faults)
         IN [nodes |-> g.nodes \o rest.nodes, calls |-> g.calls \o rest.calls]

NoChunking == [documents |-> <<>>, outcome |-> "none", all_nodes |-> <<>>, calls |-> <<>>]

\* chunk_documents_by_language (ingestion.py:253-341); faults[lang] is what
\* the structural attempt for the group of lang does.
chunk_documents_by_language(documents, faults) ==
    LET r == process_groups(GroupKeys(documents), documents, faults)
    IN [documents |-> documents, outcome |-> "returned", all_nodes |-> r.nodes,
        calls |-> r.calls]

\* ----------------------------------------------------- parse_code_files
\* A file name is the tuple of its parts between dots: "a.py" is
\* <<"a", "py">>, ".gitignore" is <<"", "gitignore">>, "Makefile" is
\* <<"Makefile">>.  A file is [dirs, name, size, stat, read]: the directories
\* from the root down to it, its name, st_size in bytes, and what stat() and
\* the reader do on it.

\* file.startswith('.') (ingestion.py:179, 185)
starts_with_dot(name) == Len(name) > 1 /\ name[1] = ""

\* file.endswith('.lock') (ingestion.py:194)
ends_with_lock(name) == Len(name) > 1 /\ name[Len(name)] = "lock"

\* Path.suffix without its dot: the part after the last dot, unless that dot
\* is the name's first character or its last (ingestion.py:199)
suffix(name) ==
    IF Len(name) > 1 /\ name[Len(name)] # "" /\ ~(Len(name) = 2 /\ name[1] = "")
    THEN name[Len(name)] ELSE ""

\* supported_extensions (ingestion.py:146-151)
supported_extensions ==
    {"py", "js", "ts", "jsx", "tsx", "java", "go", "rs", "cpp", "c", "h", "hpp", "cs",
     "php", "rb", "swift", "kt", "scala", "r", "R", "md", "txt", "json", "yaml", "yml",
     "xml", "html", "css", "scss", "sass", "sh", "bash"}

\* skip_files (ingestion.py:154-160)
skip_files ==
    {<<"package-lock", "json">>, <<"yarn", "lock">>, <<"pnpm-lock", "yaml">>,
     <<"composer", "lock">>, <<"poetry", "lock">>, <<"Pipfile", "lock">>,
     <<"go", "sum">>, <<"Cargo", "lock">>, <<"requirements", "txt">>,
     <<"requirements-dev", "txt">>, <<"", "gitignore">>, <<"", "gitattributes">>,
     <<"", "editorconfig">>, <<"tsconfig", "json">>, <<"jsconfig", "json">>}

\* skip_dirs (ingestion.py:163-168)
skip_dirs ==
    {<<"", "git">>, <<"", "svn">>, <<"", "hg">>, <<"__pycache__">>, <<"node_modules">>,
     <<"", "venv">>, <<"venv">>, <<"env">>, <<"", "env">>, <<"dist">>, <<"build">>,
     <<"", "pytest_cache">>, <<"", "mypy_cache">>, <<"", "idea">>, <<"", "vscode">>,
     <<"", "vs">>, <<"target">>, <<"bin">>, <<"obj">>, <<"", "gradle">>, <<"", "next">>,
     <<"", "nuxt">>, <<"vendor">>, <<"bower_components">>}

\* a mutant of the pruning: only the names of skip_dirs are dropped
walked_skip_dirs_only(dirs) == \A i \in 1..Len(dirs) : dirs[i] \notin skip_dirs

\* dirs[:] = [d for d in dirs if d not in skip_dirs and not d.startswith('.')]
\* (ingestion.py:179): os.walk never enters a directory that was dropped.
walked(dirs) ==
    \A i \in 1..Len(dirs) : dirs[i] \notin skip_dirs /\ ~starts_with_dot(dirs[i])

\* ext.lower() on the extensions above (ingestion.py:124)
lower(ext) == IF ext = "R" THEN "r" ELSE ext

\* get_language_from_extension (ingestion.py:97-124)
get_language_from_extension(ext) ==
    CASE lower(ext) = "py" -> "python"
      [] lower(ext) \in {"js", "jsx"} -> "javascript"
      [] lower(ext) \in {"ts", "tsx"} -> "typescript"
      [] lower(ext) = "java" -> "java"
      [] lower(ext) = "go" -> "go"
      [] lower(ext) = "rs" -> "rust"
      [] lower(ext) \in {"cpp", "hpp"} -> "cpp"
      [] lower(ext) \in {"c", "h"} -> "c"
      [] lower(ext) = "cs" -> "csharp"
      [] lower(ext) = "php" -> "php"
      [] lower(ext) = "rb" -> "ruby"
      [] lower(ext) = "swift" -> "swift"
      [] lower(ext) = "kt" -> "kotlin"
      [] lower(ext) = "scala" -> "scala"
      [] lower(ext) = "r" -> "r"
      [] OTHER -> "python"

\* max_file_size_mb: float = 5.0 (ingestion.py:127)
DefaultMaxFileSizeMb == 5

\* max_file_size_bytes = max_file_size_mb * 1024 * 1024 (ingestion.py:173)
max_file_size_bytes(max_file_size_mb) ==
    (IF max_file_size_mb = None THEN DefaultMaxFileSizeMb ELSE max_file_size_mb[1])
        * 1024 * 1024

\* a mutant of the size test: a file of exactly the ceiling is dropped too
too_large_at_ceiling(file_size, max_bytes) == file_size >= max_bytes

\* `if file_size > max_file_size_bytes:` (ingestion.py:205)
too_large(file_size, max_bytes) == file_size > max_bytes

\* a mutant of the read handlers: only the decoding error is caught
caught_on_read_decode_only(err) == err = "UnicodeDecodeError"

\* `except UnicodeDecodeError:` and `except Exception as e:` around the read
\* (ingestion.py:240-245)
caught_on_read(err) == err \in {"UnicodeDecodeError", "Exception"}

\* The document FlatReader makes of a file, with the metadata attached at
\* ingestion.py:217-235.
DocumentOf(f) ==
    [file_path |-> <<f.dirs, f.name>>, file_name |-> f.name,
     file_extension |-> suffix(f.name),
     language |-> get_language_from_extension(suffix(f.name))]

\* The body of `for file in files:` (ingestion.py:181-245) for one file, on
\* the running state acc = [documents, files_processed, files_skipped, raised].
visit_file(acc, f, max_bytes) ==
    IF acc.raised THEN acc
    ELSE IF starts_with_dot(f.name) THEN acc
    ELSE IF f.name \in skip_files THEN [acc EXCEPT !.files_skipped = @ + 1]
    ELSE IF ends_with_lock(f.name) THEN [acc EXCEPT !.files_skipped = @ + 1]
    ELSE IF suffix(f.name) \notin supported_extensions THEN acc
    ELSE IF f.stat = "OSError" THEN acc
    ELSE IF too_large(f.size, max_bytes) THEN [acc EXCEPT !.files_skipped = @ + 1]
    ELSE IF f.read = "ok"
         THEN [acc EXCEPT !.documents = Append(@, DocumentOf(f)),
                          !.files_processed = @ + 1]
    ELSE IF caught_on_read(f.read) THEN [acc EXCEPT !.files_skipped = @ + 1]
    ELSE [acc EXCEPT !.raised = TRUE]

RECURSIVE walk(_, _, _)
\* `for root, dirs, files in os.walk(repo_path):` (ingestion.py:177-245) over
\* the files of the tree in the order os.walk meets them
walk(acc, tree, max_bytes) ==
    IF tree = <<>> THEN acc
    ELSE walk(IF walked(Head(tree).dirs) THEN visit_file(acc, Head(tree), max_bytes)
              ELSE acc,
              Tail(tree), max_bytes)

\* a mutant of the precondition: the root is never found missing
path_missing_never(exists) == FALSE

\* `if not os.path.exists(repo_path):` (ingestion.py:139)
path_missing(exists) == ~exists

NoHarvest == [exists |-> FALSE, tree |-> <<>>, max_file_size_mb |-> None,
              max_bytes |-> 0, outcome |-> "none",
              documents |-> <<>>, files_processed |-> 0, files_skipped |-> 0]

\* parse_code_files(repo_path, max_file_size_mb) (ingestion.py:127-251);
\* `exists` is os.path.exists(repo_path), `tree` the files under the root.
parse_code_files(exists, tree, max_file_size_mb) ==
    IF path_missing(exists)
    THEN \* raise ValueError("Repository path does not exist: ...")
         [exists |-> exists, tree |-> tree, max_file_size_mb |-> max_file_size_mb,
          max_bytes |-> max_file_size_bytes(max_file_size_mb),
          outcome |-> "ValueError", documents |-> <<>>, files_processed |-> 0,
          files_skipped |-> 0]
    ELSE LET acc == walk([documents |-> <<>>, files_processed |-> 0,
                          files_skipped |-> 0, raised |-> FALSE],
                         tree, max_file_size_bytes(max_file_size_mb))
         IN [exists |-> exists, tree |-> tree, max_file_size_mb |-> max_file_size_mb,
             max_bytes |-> max_file_size_bytes(max_file_size_mb),
             outcome |-> IF acc.raised THEN "raised" ELSE "returned",
             documents |-> IF acc.raised THEN <<>> ELSE acc.documents,
             files_processed |-> acc.files_processed,
             files_skipped |-> acc.files_skipped]

\* ------------------------------ extract_repo_name, clone_repo, ingest_repo
\* A repository URL is the tuple of its pieces: " " is a whitespace
\* character, "https://github.com/" a scheme with its host, "git@github.com:"
\* an SSH prefix, "/" a slash, ".git" that suffix, "?ref" and "#frag" a query
\* and a fragment, and any other piece a name.

\* a mutant of the empty test: only the empty string is refused
is_blank_empty_only(repo_url) == repo_url = <<>>

\* `not repo_url or not repo_url.strip()` (ingestion.py:61, 359; app.py:29)
is_blank(repo_url) == repo_url = <<>> \/ strip(repo_url) = <<>>

RECURSIVE before_query(_)
\* repo_url.split('?')[0].split('#')[0] (ingestion.py:21)
before_query(u) ==
    IF u = <<>> \/ Head(u) \in {"?ref", "#frag"} THEN <<>>
    ELSE <<Head(u)>> \o before_query(Tail(u))

RECURSIVE lstrip_slash(_)
lstrip_slash(p) == IF p # <<>> /\ Head(p) = "/" THEN lstrip_slash(Tail(p)) ELSE p

RECURSIVE rstrip_slash(_)
rstrip_slash(p) ==
    IF p # <<>> /\ p[Len(p)] = "/" THEN rstrip_slash(SubSeq(p, 1, Len(p) - 1)) ELSE p

\* the text after the last ':' of an SSH URL, urlparse(...).path.strip('/')
\* of any other (ingestion.py:24-29)
url_path(u) ==
    IF u # <<>> /\ Head(u) = "git@github.com:" THEN Tail(u)
    ELSE IF u # <<>> /\ Head(u) = "https://github.com/"
         THEN rstrip_slash(lstrip_slash(Tail(u)))
         ELSE rstrip_slash(lstrip_slash(u))

\* repo_name.replace('.git', '') (ingestion.py:32)
remove_dot_git(p) == SelectSeq(p, LAMBDA t : t # ".git")

RECURSIVE last_segment(_)
\* repo_name.split('/')[-1] (ingestion.py:35)
last_segment(p) == IF \E i \in 1..Len(p) : p[i] = "/" THEN last_segment(Tail(p)) ELSE p

\* extract_repo_name (ingestion.py:15-43); no piece holds a character that
\* the re.sub at line 38 replaces.
extract_repo_name(repo_url) ==
    LET repo_name == last_segment(remove_dot_git(url_path(before_query(repo_url))))
    IN [raised |-> repo_name = <<>>, repo_name |-> repo_name]

\* A path is the tuple of its segments, each segment the tuple of its
\* pieces; DATA_DIR is written from the project root (config.py:6-9).
DATA_DIR == << <<"data">> >>
CLONE_DIR == Append(DATA_DIR, <<"cloned_repos">>)
CHROMA_PATH == Append(DATA_DIR, <<"chromadb">>)

RECURSIVE normpath(_)
\* os.path.normpath: "." segments are dropped, ".." takes the segment
\* before it away
normpath(path) ==
    IF path = <<>> THEN <<>>
    ELSE LET before == normpath(SubSeq(path, 1, Len(path) - 1))
             seg == path[Len(path)]
         IN IF seg = <<".">> THEN before
            ELSE IF seg = <<"..">>
                 THEN IF before = <<>> THEN <<>> ELSE SubSeq(before, 1, Len(before) - 1)
                 ELSE Append(before, seg)

\* repo_path = os.path.normpath(os.path.join(CLONE_DIR, repo_name))
\* (ingestion.py:66-67)
repo_path_of(repo_name) == normpath(Append(CLONE_DIR, repo_name))

\* `inside` is `path` or lies below it
below(path, inside) ==
    Len(inside) >= Len(path) /\ SubSeq(inside, 1, Len(path)) = path

\* The names extract_repo_name can return for the URLs drawn, and the file
\* system at the paths clone_repo computes from them: at each path nothing,
\* or a directory <<[valid, tree, origin]>>: whether git.Repo() accepts it,
\* its files, and the URL it was cloned from.  DATA_DIR and CLONE_DIR are
\* made when config.py is imported (config.py:12).
RepoNames == {<<"repo">>, <<"lib">>, <<".">>, <<"..">>}
ClonePaths == {repo_path_of(n) : n \in RepoNames}
PlainDir == <<[valid |-> FALSE, tree |-> <<>>, origin |-> <<>>]>>
NoClones == [p \in ClonePaths |-> IF p \in {DATA_DIR, CLONE_DIR} THEN PlainDir ELSE <<>>]

\* shutil.rmtree(repo_path) (ingestion.py:74, 85): the directory goes with
\* everything below it
rmtree(dir, path) == [p \in DOMAIN dir |-> IF below(path, p) THEN <<>> ELSE dir[p]]

\* git.Repo.clone_from(repo_url, repo_path, depth=1) that succeeds
\* (ingestion.py:89): the clone is at repo_path, and the missing directories
\* above it are made
cloned_into(dir, path, repo_url, tree) ==
    [p \in DOMAIN dir |->
        IF p = path THEN <<[valid |-> TRUE, tree |-> tree, origin |-> repo_url]>>
        ELSE IF below(p, path) /\ dir[p] = <<>> THEN PlainDir
        ELSE dir[p]]

\* clone_repo (ingestion.py:46-95) on the file system `dir`; `remote` is
\* what git.Repo.clone_from does and fetches.  `events` are the file-system
\* and network operations in the order they happen, `touched` the paths
\* that rmtree or clone_from was given.
clone_repo(dir, repo_url, force_clone, remote) ==
    IF is_blank(repo_url)
    THEN [outcome |-> "ValueError", error |-> "empty_url", events |-> <<>>, dir |-> dir,
          repo_name |-> <<>>, repo_path |-> <<>>, touched |-> {}]
    ELSE LET n == extract_repo_name(strip(repo_url)) IN
         IF n.raised
         THEN [outcome |-> "ValueError", error |-> "no_repo_name", events |-> <<>>,
               dir |-> dir, repo_name |-> <<>>, repo_path |-> <<>>, touched |-> {}]
         ELSE LET name == n.repo_name
                  repo_path == repo_path_of(name)
                  exists == dir[repo_path] # <<>>
                  reuse == exists /\ ~force_clone /\ dir[repo_path][1].valid
                  ev == (IF exists /\ ~force_clone THEN <<"git.Repo">> ELSE <<>>)
                        \o (IF exists THEN <<"rmtree">> ELSE <<>>) \o <<"clone_from">>
                  cleared == rmtree(dir, repo_path)
              IN IF reuse
                 THEN [outcome |-> "returned", error |-> "none", events |-> <<"git.Repo">>,
                       dir |-> dir, repo_name |-> name, repo_path |-> repo_path,
                       touched |-> {}]
                 ELSE CASE remote.outcome = "ok" ->
                             [outcome |-> "returned", error |-> "none", events |-> ev,
                              dir |-> cloned_into(cleared, repo_path, strip(repo_url),
                                                  remote.tree),
                              repo_name |-> name, repo_path |-> repo_path,
                              touched |-> {repo_path}]
                        [] remote.outcome = "GitCommandError" ->
                             [outcome |-> "GitCommandError", error |-> "clone_failed",
                              events |-> ev, dir |-> cleared, repo_name |-> name,
                              repo_path |-> repo_path, touched |-> {repo_path}]
                        [] OTHER ->
                             [outcome |-> "RuntimeError", error |-> "clone_failed",
                              events |-> ev, dir |-> cleared, repo_name |-> name,
                              repo_path |-> repo_path, touched |-> {repo_path}]

\* the handlers of ingest_repo (ingestion.py:414-422): what its caller sees
\* when `exc` is raised inside its try block
ingest_repo_raises(exc) == IF exc = "ValueError" THEN "ValueError" ELSE "RuntimeError"

\* `if not raw_documents:` (ingestion.py:373)
no_documents(raw_documents) == raw_documents = <<>>

\* a mutant of the second test: an empty list of nodes goes on to the store
no_chunks_never(nodes) == FALSE

\* `if not nodes:` (ingestion.py:385)
no_chunks(nodes) == nodes = <<>>

\* the file of the tree that a document was read from
FileAt(tree, file_path) ==
    tree[CHOOSE i \in 1..Len(tree) : <<tree[i].dirs, tree[i].name>> = file_path]

\* raw_documents as chunk_documents_by_language reads them: the language of
\* the metadata and the text FlatReader loaded (ingestion.py:213-235)
LoadedDocuments(tree, documents) ==
    [i \in 1..Len(documents) |->
        LET f == FileAt(tree, documents[i].file_path)
        IN [id |-> i, language |-> Some(documents[i].language), chars |-> f.chars,
            blank |-> f.blank, chars_per_token |-> f.chars_per_token]]

\* a mutant of the open: the collection is made anew
create_collection(coll) == <<>>

\* db.get_or_create_collection("repomind_codebase") (database.py:16)
get_or_create_collection(coll) == coll

\* VectorStoreIndex(nodes, storage_context=...) adds one entry for each node
\* (ingestion.py:397-401)
insert(coll, node) == Append(coll, [id |-> Len(coll) + 1, node |-> node])

\* What the collection holds before the first ingestion of a run.
SeedNode == [doc |-> 0, by |-> SimpleNodeParser, chars |-> 1]
SeedCollection == <<[id |-> 1, node |-> SeedNode]>>

\* The Retriever object after `self._index = self._load_index()`
\* (retrieval.py:9-10) and after `self.reranker = ...` (retrieval.py:14-19).
index_loaded(use_reranker, l) ==
    [use_reranker |-> use_reranker, has_reranker |-> FALSE, entries |-> l.entries]
reranker_loaded(self) == [self EXCEPT !.has_reranker = TRUE]

\* a mutant of the assignment: the old object stays
swapped_keeps_old(old, built) == old

\* `retriever = Retriever(use_reranker=True)` (app.py:42): the name is bound
\* to the object the constructor returned
swapped(old, built) == built

\* a mutant of the call: the global is read again inside the search
self_read_again(handle, global) == global

\* `retriever.search(message)` (app.py:67): `self` of the whole call is the
\* object the name was bound to when the call began
self_of(handle, global) == handle

\* sys.stdout bound to the stream the process started with; the StringIO of
\* a handle_ingestion call is "captured" (app.py:33-34).
Console == [sys |-> "console", captured |-> {}]

\* print(...) by `who`: the text goes to the stream sys.stdout is bound to
\* at that moment
print_to(out, who) ==
    IF out.sys = "captured" THEN [out EXCEPT !.captured = @ \cup {who}] ELSE out

NoIngest ==
    [fn |-> "none", repo_url |-> <<>>, force_clone |-> FALSE, pc |-> "idle",
     events |-> <<>>, repo_name |-> <<>>, local_path |-> <<>>, touched |-> {},
     documents |-> <<>>, nodes |-> <<>>,
     written |-> 0, built |-> <<>>, raised |-> "none", reload |-> "none",
     outcome |-> "none", error |-> "none", old_stdout |-> "none", log |-> {},
     collection_before |-> <<>>, clones_before |-> NoClones, retriever_before |-> <<>>]

\* a mutant of the handler: handle_ingestion lets the exception through
raise_in_uncaught(frame, exc, error) ==
    [frame EXCEPT !.pc = "done", !.error = error,
                  !.raised = IF frame.fn = "clone_repo" THEN exc
                             ELSE IF exc = "ValueError" THEN exc ELSE "RuntimeError",
                  !.outcome = IF frame.fn = "clone_repo" THEN exc
                              ELSE IF exc = "ValueError" THEN exc ELSE "RuntimeError"]

\* `exc` is raised inside clone_repo or inside the try block of ingest_repo:
\* clone_repo and ingest_repo end with it, handle_ingestion catches it
\* (app.py:45-46) and goes on to its finally block.
raise_in(frame, exc, error) ==
    LET seen == IF frame.fn = "clone_repo" THEN exc ELSE ingest_repo_raises(exc)
    IN IF frame.fn = "handle_ingestion"
       THEN [frame EXCEPT !.pc = "finally", !.raised = seen, !.error = error]
       ELSE [frame EXCEPT !.pc = "done", !.raised = seen, !.outcome = seen,
                          !.error = error]

NoQuery == [message |-> <<>>, pc |-> "idle", handle |-> <<>>, stage1_self |-> <<>>,
            stage2_self |-> <<>>, seen |-> 0]

\* ------------------------------------------------------------ the actions
\* Retriever(use_reranker) (retrieval.py:8-19): the object exists only if
\* _load_index returned.
RetrieverInit ==
    \E use_reranker \in BOOLEAN, first \in FirstLoadOutcomes :
        LET l == load_index(collection, first) IN
        /\ load' = l
        /\ loadLog' = IF l.result = "raise"
                      THEN loadLog \cup {[cause |-> l.cause, etype |-> l.etype]}
                      ELSE loadLog
        /\ retriever' = IF l.result = "index"
                        THEN <<[use_reranker |-> use_reranker,
                                has_reranker |-> use_reranker]>>
                        ELSE retriever
        /\ call' = NoCall
        /\ UNCHANGED <<collection, chunking, harvest, clones, ingest, query, stdout>>

TopKArgs == {None} \cup {Some(k) : k \in 1..MaxTopK}
RerankArgs == {None, Some(TRUE), Some(FALSE)}

\* One call of Retriever.search at a time (app.py:67): the caller holds the
\* result until it is done with it.
Search ==
    /\ retriever # <<>>
    /\ call = NoCall
    /\ \E q \in Queries, top_k \in TopKArgs, rerank \in RerankArgs,
          found \in 0..Len(collection) :
          call' = search(retriever[1], collection, q, top_k, rerank, found)
    /\ load' = NoLoad
    /\ UNCHANGED <<collection, retriever, loadLog, chunking, harvest, clones, ingest, query, stdout>>

\* The caller is done with the result of the last search (app.py:69-95).
SearchDone ==
    /\ call # NoCall
    /\ call' = NoCall
    /\ UNCHANGED <<collection, retriever, load, loadLog, chunking, harvest, clones, ingest,
                   query, stdout>>


InitRetrieval ==
    /\ collection \in {Entries(n) : n \in 0..MaxEntries}
    /\ retriever = <<>>
    /\ call = NoCall
    /\ load = NoLoad
    /\ loadLog = {}
    /\ chunking = NoChunking
    /\ harvest = NoHarvest
    /\ clones = NoClones
    /\ ingest = NoIngest
    /\ query = NoQuery
    /\ stdout = Console

NextRetrieval == RetrieverInit \/ Search \/ SearchDone

SpecRetrieval == InitRetrieval /\ [][NextRetrieval]_vars

\* Before an ingestion: nothing stored, nothing harvested, nothing chunked.
InitIngestion ==
    /\ collection = <<>>
    /\ retriever = <<>>
    /\ call = NoCall
    /\ load = NoLoad
    /\ loadLog = {}
    /\ chunking = NoChunking
    /\ harvest = NoHarvest
    /\ clones = NoClones
    /\ ingest = NoIngest
    /\ query = NoQuery
    /\ stdout = Console

\* The contents a document may have: whitespace only, and code of several
\* chunks whose tokens span four characters each.
DocContents ==
    {[chars |-> 2, blank |-> TRUE, chars_per_token |-> 1],
     [chars |-> 7000, blank |-> FALSE, chars_per_token |-> 4]}

\* The documents handed to the chunking engine: document i has identity i.
DocLists ==
    UNION {{[i \in 1..n |->
                [id |-> i, language |-> m[i].language, chars |-> m[i].content.chars,
                 blank |-> m[i].content.blank,
                 chars_per_token |-> m[i].content.chars_per_token]]
            : m \in [1..n -> [language : LanguageMetadata, content : DocContents]]}
           : n \in 0..MaxDocs}

\* What the structural attempt for the group of lang may do: a group that
\* is empty or has no structural attempt has nothing to go wrong.
Faults(documents, lang) ==
    IF lang \in ast_supported_langs /\ DocsOfLang(documents, lang) # <<>>
    THEN {NoFault, ParserFault}
         \cup {SplitFault(j) : j \in 1..Len(DocsOfLang(documents, lang))}
    ELSE {NoFault}

ChunkDocuments ==
    /\ chunking = NoChunking
    /\ \E documents \in DocLists :
          \E python \in Faults(documents, "python"), csharp \in Faults(documents, "csharp"),
             php \in Faults(documents, "php") :
              chunking' = chunk_documents_by_language(
                              documents,
                              [l \in Languages |->
                                  CASE l = "python" -> python
                                    [] l = "csharp" -> csharp
                                    [] OTHER -> php])
    /\ UNCHANGED <<collection, retriever, call, load, loadLog, harvest, clones, ingest, query,
                   stdout>>

\* The caller is done with the nodes (ingestion.py:383-388).
ChunkDone ==
    /\ chunking # NoChunking
    /\ chunking' = NoChunking
    /\ UNCHANGED <<collection, retriever, call, load, loadLog, harvest, clones, ingest, query,
                   stdout>>

NextChunk == ChunkDocuments \/ ChunkDone

SpecChunk == InitIngestion /\ [][NextChunk]_vars

\* The files a repository may hold: every name at the root in every state a
\* file can be in, and a source file below some directories.
FileNames ==
    {<<"a", "py">>, <<"main", "cs">>, <<"stats", "R">>, <<"img", "png">>, <<"Makefile">>,
     <<"package-lock", "json">>, <<"foo", "lock">>, <<"", "hidden", "py">>}
FileStates ==
    {[size |-> 1024 * 1024, stat |-> "ok", read |-> "ok"],
     [size |-> 5 * 1024 * 1024, stat |-> "ok", read |-> "ok"],
     [size |-> 5 * 1024 * 1024 + 1, stat |-> "ok", read |-> "ok"],
     [size |-> 1024 * 1024, stat |-> "OSError", read |-> "ok"],
     [size |-> 1024 * 1024, stat |-> "ok", read |-> "UnicodeDecodeError"],
     [size |-> 1024 * 1024, stat |-> "ok", read |-> "Exception"]}
DirPaths ==
    {<<<<"src">>>>, <<<<"node_modules">>>>, <<<<"", "github">>>>, <<<<"src">>, <<"build">>>>}
FilePool ==
    {[dirs |-> <<>>, name |-> n, size |-> st.size, stat |-> st.stat, read |-> st.read]
        : n \in FileNames, st \in FileStates}
    \cup {[dirs |-> d, name |-> <<"a", "py">>, size |-> 1024 * 1024, stat |-> "ok",
           read |-> "ok"] : d \in DirPaths}

\* The trees: up to MaxFiles files, no path twice.
Trees ==
    {t \in UNION {[1..n -> FilePool] : n \in 0..MaxFiles} :
        \A i \in 1..Len(t), j \in 1..Len(t) :
            (i # j) => <<t[i].dirs, t[i].name>> # <<t[j].dirs, t[j].name>>}

MaxFileSizeArgs == {None, Some(1)}

ParseCodeFiles ==
    /\ harvest = NoHarvest
    /\ \E exists \in BOOLEAN, tree \in Trees, max_file_size_mb \in MaxFileSizeArgs :
          /\ ~exists => (tree = <<>> /\ max_file_size_mb = None)
          /\ harvest' = parse_code_files(exists, tree, max_file_size_mb)
    /\ UNCHANGED <<collection, retriever, call, load, loadLog, chunking, clones, ingest, query,
                   stdout>>

\* The caller is done with the documents (ingestion.py:371-379).
ParseDone ==
    /\ harvest # NoHarvest
    /\ harvest' = NoHarvest
    /\ UNCHANGED <<collection, retriever, call, load, loadLog, chunking, clones, ingest, query,
                   stdout>>

NextHarvest == ParseCodeFiles \/ ParseDone

SpecHarvest == InitIngestion /\ [][NextHarvest]_vars

\* The application (app.py:12-24): started over a collection that already
\* holds entries, with the retriever opened on it, and some clone directory.
SeedRetriever == [use_reranker |-> TRUE, has_reranker |-> TRUE, entries |-> 1]

\* What a repository may hold: a picture only, an empty source file, or a
\* source file of two chunks.
SourceFile(name, chars) ==
    [dirs |-> <<>>, name |-> name, size |-> chars, stat |-> "ok", read |-> "ok",
     chars |-> chars, blank |-> chars = 0, chars_per_token |-> 4]
IngestTrees ==
    {<<SourceFile(<<"img", "png">>, 3500)>>,
     <<SourceFile(<<"a", "py">>, 0)>>,
     <<SourceFile(<<"a", "py">>, 3500)>>}

Urls ==
    {<<>>, <<" ">>,
     <<"https://github.com/", "alice", "/", "repo", ".git">>,
     <<" ", "https://github.com/", "alice", "/", "repo", ".git", " ">>,
     <<"git@github.com:", "bob", "/", "lib", ".git">>,
     <<"https://github.com/">>}

Remotes ==
    {[outcome |-> "ok", tree |-> t] : t \in IngestTrees}
    \cup {[outcome |-> o, tree |-> <<>>] : o \in {"GitCommandError", "Exception"}}

InitClones ==
    {NoClones}
    \cup {[NoClones EXCEPT ![repo_path_of(<<"repo">>)] =
                <<[valid |-> v, tree |-> <<SourceFile(<<"a", "py">>, 3500)>>,
                   origin |-> IF v THEN <<"https://github.com/", "alice", "/", "repo", ".git">>
                              ELSE <<>>]>>]
             : v \in BOOLEAN}

InitApp ==
    /\ collection = SeedCollection
    /\ retriever = <<SeedRetriever>>
    /\ call = NoCall
    /\ load = NoLoad
    /\ loadLog = {}
    /\ chunking = NoChunking
    /\ harvest = NoHarvest
    /\ clones \in InitClones
    /\ ingest = NoIngest
    /\ query = NoQuery
    /\ stdout = Console

\* A call of clone_repo, ingest_repo or handle_ingestion begins: the empty
\* test of ingest_repo (ingestion.py:359-360) and of handle_ingestion
\* (app.py:29-30), which then binds sys.stdout to its buffer (app.py:33-34);
\* clone_repo makes its own test in Clone.
IngestCall ==
    /\ ingest = NoIngest
    /\ Len(collection) + 2 <= MaxStored
    /\ \E fn \in {"clone_repo", "ingest_repo", "handle_ingestion"}, repo_url \in Urls,
          force_clone \in BOOLEAN :
          LET f == [NoIngest EXCEPT !.fn = fn, !.repo_url = repo_url,
                                    !.force_clone = force_clone,
                                    !.collection_before = collection,
                                    !.clones_before = clones,
                                    !.retriever_before = retriever]
              redirected == fn = "handle_ingestion" /\ ~is_blank(repo_url)
          IN /\ stdout' = IF redirected THEN [sys |-> "captured", captured |-> {}]
                          ELSE stdout
             /\ ingest' =
                IF redirected
                THEN [f EXCEPT !.pc = "clone", !.old_stdout = stdout.sys]
                ELSE IF fn = "clone_repo" \/ ~is_blank(repo_url)
                THEN [f EXCEPT !.pc = "clone"]
                ELSE IF fn = "handle_ingestion"
                THEN [f EXCEPT !.pc = "done", !.outcome = "returned",
                               !.error = "empty_url"]
                ELSE [f EXCEPT !.pc = "done", !.outcome = "ValueError",
                               !.raised = "ValueError", !.error = "empty_url"]
    /\ UNCHANGED <<collection, retriever, call, load, loadLog, chunking, harvest, clones,
                   query>>

\* local_path = clone_repo(repo_url, force_clone=force_clone)
\* (ingestion.py:368, 46-95)
Clone ==
    /\ ingest.pc = "clone"
    /\ \E remote \in Remotes :
          LET r == clone_repo(clones, ingest.repo_url, ingest.force_clone, remote)
              f == [ingest EXCEPT !.events = @ \o r.events, !.repo_name = r.repo_name,
                                   !.local_path = r.repo_path, !.touched = r.touched]
          IN /\ clones' = r.dir
             /\ ingest' =
                   IF r.outcome # "returned" THEN raise_in(f, r.outcome, r.error)
                   ELSE IF ingest.fn = "clone_repo"
                   THEN [f EXCEPT !.pc = "done", !.outcome = "returned"]
                   ELSE [f EXCEPT !.pc = "parse"]
    /\ stdout' = print_to(stdout, "ingest")
    /\ UNCHANGED <<collection, retriever, call, load, loadLog, chunking, harvest, query>>

\* raw_documents = parse_code_files(local_path) and the test on it
\* (ingestion.py:371-377)
Parse ==
    /\ ingest.pc = "parse"
    /\ LET h == parse_code_files(TRUE, clones[ingest.local_path][1].tree, None)
           f == [ingest EXCEPT !.events = Append(@, "parse_code_files"),
                               !.documents = h.documents]
       IN ingest' = IF no_documents(h.documents)
                    THEN raise_in(f, "ValueError", "no_code_files")
                    ELSE [f EXCEPT !.pc = "chunk"]
    /\ stdout' = print_to(stdout, "ingest")
    /\ UNCHANGED <<collection, retriever, call, load, loadLog, chunking, harvest, clones,
                   query>>

\* nodes = chunk_documents_by_language(raw_documents) and the test on it
\* (ingestion.py:383-386)
Chunk ==
    /\ ingest.pc = "chunk"
    /\ LET c == chunk_documents_by_language(
                    LoadedDocuments(clones[ingest.local_path][1].tree, ingest.documents),
                    [l \in Languages |-> NoFault])
           f == [ingest EXCEPT !.events = Append(@, "chunk_documents_by_language"),
                               !.nodes = c.all_nodes]
       IN ingest' = IF no_chunks(c.all_nodes)
                    THEN raise_in(f, "ValueError", "no_chunks")
                    ELSE [f EXCEPT !.pc = "store"]
    /\ stdout' = print_to(stdout, "ingest")
    /\ UNCHANGED <<collection, retriever, call, load, loadLog, chunking, harvest, clones,
                   query>>

\* vector_store = get_vector_store() (ingestion.py:392, database.py:8-21)
StoreOpen ==
    /\ ingest.pc = "store"
    /\ collection' = get_or_create_collection(collection)
    /\ ingest' = [ingest EXCEPT !.pc = "insert", !.events = Append(@, "get_vector_store")]
    /\ stdout' = print_to(stdout, "ingest")
    /\ UNCHANGED <<retriever, call, load, loadLog, chunking, harvest, clones, query>>

\* VectorStoreIndex(nodes, ...) embeds and adds the next node
\* (ingestion.py:397-401)
Insert ==
    /\ ingest.pc = "insert"
    /\ ingest.written < Len(ingest.nodes)
    /\ collection' = insert(collection, ingest.nodes[ingest.written + 1])
    /\ ingest' = [ingest EXCEPT !.written = @ + 1, !.events = Append(@, "insert")]
    /\ UNCHANGED <<retriever, call, load, loadLog, chunking, harvest, clones, query, stdout>>

\* VectorStoreIndex(nodes, ...) raises: the embedding model or the store
\* fails, with the nodes added so far left in the collection.
StoreFail ==
    /\ ingest.pc = "insert"
    /\ ingest.written < Len(ingest.nodes)
    /\ ingest' = raise_in(ingest, "Exception", "store_failed")
    /\ stdout' = print_to(stdout, "ingest")
    /\ UNCHANGED <<collection, retriever, call, load, loadLog, chunking, harvest, clones,
                   query>>

\* `return index` (ingestion.py:410)
StoreReturn ==
    /\ ingest.pc = "insert"
    /\ ingest.written = Len(ingest.nodes)
    /\ ingest' = IF ingest.fn = "ingest_repo"
                 THEN [ingest EXCEPT !.pc = "done", !.outcome = "returned"]
                 ELSE [ingest EXCEPT !.pc = "reload"]
    /\ stdout' = print_to(stdout, "ingest")
    /\ UNCHANGED <<collection, retriever, call, load, loadLog, chunking, harvest, clones,
                   query>>

\* Retriever(use_reranker=True) as far as `self._index = self._load_index()`
\* (app.py:42, retrieval.py:9-10)
ReloadIndex ==
    /\ ingest.pc = "reload"
    /\ \E first \in FirstLoadOutcomes :
          LET l == load_index(collection, first)
          IN ingest' =
                IF l.result = "raise"
                THEN [ingest EXCEPT !.pc = "finally", !.reload = "raised",
                                    !.error = "reload_failed",
                                    !.events = Append(@, "Retriever")]
                ELSE [ingest EXCEPT !.pc = "reranker",
                                    !.built = <<index_loaded(TRUE, l)>>,
                                    !.events = Append(@, "Retriever")]
    /\ stdout' = print_to(stdout, "ingest")
    /\ UNCHANGED <<collection, retriever, call, load, loadLog, chunking, harvest, clones,
                   query>>

\* the rest of Retriever.__init__ (retrieval.py:14-19): the cross-encoder
\* loads, or SentenceTransformerRerank raises
ReloadReranker ==
    /\ ingest.pc = "reranker"
    /\ \E ok \in BOOLEAN :
          ingest' = IF ok
                    THEN [ingest EXCEPT !.pc = "swap",
                                        !.built = <<reranker_loaded(@[1])>>]
                    ELSE [ingest EXCEPT !.pc = "finally", !.reload = "raised",
                                        !.error = "reload_failed"]
    /\ stdout' = print_to(stdout, "ingest")
    /\ UNCHANGED <<collection, retriever, call, load, loadLog, chunking, harvest, clones,
                   query>>

\* `retriever = ...` (app.py:42): the global name is bound to the new object
Swap ==
    /\ ingest.pc = "swap"
    /\ retriever' = <<swapped(retriever[1], ingest.built[1])>>
    /\ ingest' = [ingest EXCEPT !.pc = "finally", !.reload = "ok",
                                !.events = Append(@, "swap")]
    /\ stdout' = print_to(stdout, "ingest")
    /\ UNCHANGED <<collection, call, load, loadLog, chunking, harvest, clones, query>>

\* the finally block and the return of the log (app.py:47-53)
Return ==
    /\ ingest.pc = "finally"
    /\ stdout' = [sys |-> ingest.old_stdout, captured |-> {}]
    /\ ingest' = [ingest EXCEPT !.pc = "done", !.outcome = "returned",
                                !.log = stdout.captured]
    /\ UNCHANGED <<collection, retriever, call, load, loadLog, chunking, harvest, clones,
                   query>>

\* The caller has the result.
IngestDone ==
    /\ ingest.pc = "done"
    /\ ingest' = NoIngest
    /\ UNCHANGED <<collection, retriever, call, load, loadLog, chunking, harvest, clones,
                   query, stdout>>

\* retrieve_and_chat begins (app.py:56-67): a blank message is answered with
\* "" at once; otherwise `retriever.search` reads the global name.
QueryStart ==
    /\ query = NoQuery
    /\ \E message \in {<<>>, <<"a">>} :
          /\ query' = IF query_is_empty(message)
                      THEN [NoQuery EXCEPT !.message = message, !.pc = "done"]
                      ELSE [NoQuery EXCEPT !.message = message, !.pc = "retrieve",
                                           !.handle = retriever]
          /\ stdout' = IF query_is_empty(message) THEN stdout
                       ELSE print_to(stdout, "query")
    /\ UNCHANGED <<collection, retriever, call, load, loadLog, chunking, harvest, clones,
                   ingest>>

\* stage 1 of the search (retrieval.py:88-103) on the collection as it is now
QueryRetrieve ==
    /\ query.pc = "retrieve"
    /\ query' = [query EXCEPT !.pc = "rerank",
                              !.stage1_self = self_of(query.handle, retriever),
                              !.seen = Len(collection)]
    /\ stdout' = print_to(stdout, "query")
    /\ UNCHANGED <<collection, retriever, call, load, loadLog, chunking, harvest, clones,
                   ingest>>

\* stage 2 of the search (retrieval.py:106-117)
QueryRerank ==
    /\ query.pc = "rerank"
    /\ query' = [query EXCEPT !.pc = "done",
                              !.stage2_self = self_of(query.handle, retriever)]
    /\ stdout' = print_to(stdout, "query")
    /\ UNCHANGED <<collection, retriever, call, load, loadLog, chunking, harvest, clones,
                   ingest>>

\* retrieve_and_chat has returned (app.py:69-92).
QueryDone ==
    /\ query.pc = "done"
    /\ query' = NoQuery
    /\ UNCHANGED <<collection, retriever, call, load, loadLog, chunking, harvest, clones,
                   ingest, stdout>>

NextApp ==
    \/ IngestCall \/ Clone \/ Parse \/ Chunk \/ StoreOpen \/ Insert \/ StoreFail
    \/ StoreReturn \/ ReloadIndex \/ ReloadReranker \/ Swap \/ Return \/ IngestDone
    \/ QueryStart \/ QueryRetrieve \/ QueryRerank \/ QueryDone

SpecApp == InitApp /\ [][NextApp]_vars

\* ------------------------------------------------- clone_repo on its own
\* The URLs clone_repo is called with: those above, a repository of the
\* same name under another owner, one with a query, and URLs whose last
\* segment is ".." or ".".
CloneUrls ==
    Urls
    \cup {<<"https://github.com/", "alice", "/", "repo", "?ref">>,
          <<"https://github.com/", "bob", "/", "repo">>,
          <<"https://github.com/", "alice", "/", "..">>,
          <<"https://github.com/", "alice", "/", ".", "?ref">>}

\* clone_repo(repo_url, force_clone) is called (ingestion.py:46); its empty
\* test is made in Clone.
CloneCall ==
    /\ ingest = NoIngest
    /\ \E repo_url \in CloneUrls, force_clone \in BOOLEAN :
          ingest' = [NoIngest EXCEPT !.fn = "clone_repo", !.repo_url = repo_url,
                                     !.force_clone = force_clone, !.pc = "clone",
                                     !.collection_before = collection,
                                     !.clones_before = clones,
                                     !.retriever_before = retriever]
    /\ UNCHANGED <<collection, retriever, call, load, loadLog, chunking, harvest, clones,
                   query, stdout>>

NextClone == CloneCall \/ Clone \/ IngestDone

SpecClone == InitApp /\ [][NextClone]_vars

\* ============================================================ the claims
\* What a call's arguments mean, read off the call record.
CallMade == call.outcome # "none"
CallTopK == IF call.top_k = None THEN TOP_K ELSE call.top_k[1]
CallRerank == IF call.rerank = None THEN call.self.use_reranker ELSE call.rerank[1]
HasVisibleChar(q) == \E i \in 1..Len(q) : q[i] \notin {" ", "\t", "\n"}
Stage1Asked == Len(call.similarity_top_k) > 0
FromStage1(n) == \E j \in 1..Len(call.stage1) : call.stage1[j].id = n.id

\* C1: a search with a non-empty query asks stage 1 for exactly top_k*2
\* candidates when reranking is in effect for the call and for exactly top_k
\* when it is not (top_k defaults to TOP_K, rerank to use_reranker).
C1_Stage1CandidateCount ==
    (CallMade /\ HasVisibleChar(call.query)) =>
        call.similarity_top_k = <<IF CallRerank THEN CallTopK * 2 ELSE CallTopK>>

\* C1 witness: both arguments omitted on a reranking retriever: 30 asked for.
C1_Witness ==
    /\ CallMade /\ call.top_k = None /\ call.rerank = None
    /\ call.self.use_reranker
    /\ call.similarity_top_k = <<30>>

\* C2: a search with an empty or whitespace-only query raises the input
\* error without a stage-1 retrieval, without a reranker call, and leaves
\* the retriever and the collection as they were.
C2_EmptyQueryFailsFast ==
    [][(call = NoCall /\ call' # NoCall /\ ~HasVisibleChar(call'.query)) =>
          /\ call'.outcome = "ValueError"
          /\ call'.similarity_top_k = <<>>
          /\ call'.stage1 = <<>>
          /\ call'.reranker_calls = 0
          /\ retriever' = retriever
          /\ collection' = collection]_vars

\* C2 witness: a query of two blanks was rejected.
C2_Witness == call.outcome = "ValueError" /\ call.query = <<" ", " ">>

\* C3: with reranking in effect and a non-empty stage-1 list, search returns
\* the reranker's output: at most RERANK_TOP_K results, all of them stage-1
\* candidates, each carrying the reranker's score.
C3_RerankedOutput ==
    (Stage1Asked /\ CallRerank /\ call.stage1 # <<>>) =>
        /\ call.outcome = "returned"
        /\ Len(call.result) <= RERANK_TOP_K
        /\ \A i \in 1..Len(call.result) :
              /\ FromStage1(call.result[i])
              /\ call.result[i].score =
                    [stage |-> "rerank", val |-> RerankScore(call.query, call.result[i])]

\* C4: without reranking search returns at most top_k results: the first
\* top_k of the stage-1 list when that is longer, the stage-1 list otherwise.
C4_TruncatedWithoutRerank ==
    (Stage1Asked /\ ~CallRerank) =>
        /\ call.outcome = "returned"
        /\ Len(call.result) <= CallTopK
        /\ Len(call.stage1) > CallTopK =>
              call.result = [i \in 1..CallTopK |-> call.stage1[i]]
        /\ Len(call.stage1) <= CallTopK => call.result = call.stage1

\* C4 witness: stage 1 answered with more than top_k and top_k came back.
C4_Witness ==
    /\ Stage1Asked /\ ~CallRerank /\ call.outcome = "returned"
    /\ Len(call.stage1) > CallTopK
    /\ Len(call.result) = CallTopK

\* C5: an empty stage-1 list is returned as an empty list, without raising
\* and without a reranker call, with or without reranking.
C5_EmptyStage1 ==
    (Stage1Asked /\ call.stage1 = <<>>) =>
        /\ call.outcome = "returned"
        /\ call.result = <<>>
        /\ call.reranker_calls = 0

\* C5 witness: reranking in effect, stage 1 empty, an empty list returned.
C5_Witness ==
    /\ Stage1Asked /\ CallRerank /\ call.stage1 = <<>>
    /\ call.outcome = "returned" /\ call.result = <<>>

\* C6: a load that finds the collection empty fails with the empty-index
\* error, and the empty-index failure and the other load failures are never
\* reported as the same error type.
C6_DistinctErrorTypes ==
    /\ (load.fallback /\ load.entries = 0) =>
          (load.result = "raise" /\ load.cause = "empty")
    /\ \A a \in loadLog, b \in loadLog : a.cause # b.cause => a.etype # b.etype

\* C7 as stated: whatever the first load attempt raises, a load over a
\* non-empty collection falls back to the collection and returns an index.
C7_FallbackForEveryError ==
    (load.first \in {"ValueError", "KeyError", "OtherError"} /\ load.entries > 0) =>
        (load.result = "index" /\ load.via = "vector_store")

\* C7 amended: the fallback is taken when the first attempt raises ValueError
\* or KeyError, and then a load over a non-empty collection returns the index
\* built from the collection; any other exception of the first attempt is
\* re-raised as ValueError without the fallback.
C7_FallbackOnValueOrKeyError ==
    /\ (load.first \in {"ValueError", "KeyError"} /\ load.entries > 0) =>
          (load.fallback /\ load.result = "index" /\ load.via = "vector_store")
    /\ load.first = "OtherError" =>
          (~load.fallback /\ load.result = "raise" /\ load.etype = "ValueError")

\* C7 witness: the first attempt raised KeyError over a non-empty collection
\* and the index came from the collection.
C7_Witness ==
    /\ load.first = "KeyError" /\ load.entries > 0
    /\ load.result = "index" /\ load.via = "vector_store"

\* What is in the output of the last chunking call, read off its record.
Range(seq) == {seq[i] : i \in 1..Len(seq)}
ChunkingMade == chunking.outcome # "none"
FailedLangs == {c.lang : c \in {x \in Range(chunking.calls) : x.raised}}
DocLanguage(d) == IF d.language = <<>> THEN "python" ELSE d.language[1]
NodesOfDoc(nodes, d) == {n \in Range(nodes) : n.doc = d.id}
TextSplitter == [kind |-> "SimpleNodeParser", chunk_size |-> 1024, chunk_overlap |-> 200]
SplitterSteps == {"CodeSplitter", "SimpleNodeParser"}
CoveringCalls(d) ==
    {i \in 1..Len(chunking.calls) :
        /\ chunking.calls[i].step \in SplitterSteps
        /\ ~chunking.calls[i].raised
        /\ d.id \in Range(chunking.calls[i].docs)}
RECURSIVE NodesOutside(_, _, _)
NodesOutside(nodes, documents, langs) ==
    IF nodes = <<>> THEN <<>>
    ELSE IF \E d \in Range(documents) :
               d.id = Head(nodes).doc /\ DocLanguage(d) \notin langs
         THEN <<Head(nodes)>> \o NodesOutside(Tail(nodes), documents, langs)
         ELSE NodesOutside(Tail(nodes), documents, langs)

\* C8: when the structural attempt raises for a language group the call
\* still returns; the output holds, for every document of that group, the
\* text splitter's (1024/200) nodes and nothing of the structural attempt;
\* the nodes of the other groups are what they are when nothing raises; and
\* every document is covered by exactly one splitter.
C8_PerLanguageFallback ==
    (ChunkingMade /\ FailedLangs # {}) =>
        /\ chunking.outcome = "returned"
        /\ \A d \in Range(chunking.documents) :
              DocLanguage(d) \in FailedLangs =>
                  /\ \A n \in NodesOfDoc(chunking.all_nodes, d) : n.by = TextSplitter
                  /\ NodesOfDoc(chunking.all_nodes, d) = Range(ChunksOf(TextSplitter, d))
                  /\ \A i \in CoveringCalls(d) :
                        chunking.calls[i].step = "SimpleNodeParser"
        /\ NodesOutside(chunking.all_nodes, chunking.documents, FailedLangs)
              = NodesOutside(
                    chunk_documents_by_language(chunking.documents,
                                                [l \in Languages |-> NoFault]).all_nodes,
                    chunking.documents, FailedLangs)
        /\ \A d \in Range(chunking.documents) :
              /\ Cardinality(CoveringCalls(d)) = 1
              /\ \A n \in NodesOfDoc(chunking.all_nodes, d) :
                    \A i \in CoveringCalls(d) : n.by.kind = chunking.calls[i].step

\* C8 witness: the structural split of a group raised after it had made
\* nodes, another group was split structurally, and the call returned.
C8_Witness ==
    /\ chunking.outcome = "returned"
    /\ \E c \in Range(chunking.calls) :
          c.raised /\ c.step = "CodeSplitter" /\ c.made > 0
    /\ \E c \in Range(chunking.calls) : ~c.raised /\ c.step = "CodeSplitter"

\* What the last harvest met, read off its record.
HarvestMade == harvest.outcome # "none"
Ceiling ==
    IF harvest.max_file_size_mb = <<>> THEN 5242880
    ELSE harvest.max_file_size_mb[1] * 1048576
DotName(n) == Len(n) >= 2 /\ n[1] = ""
NameExtension(n) ==
    CASE Len(n) = 1 -> ""
      [] Len(n) = 2 /\ n[1] = "" -> ""
      [] OTHER -> n[Len(n)]
Unreadable(f) == f.stat = "OSError" \/ f.read \in {"UnicodeDecodeError", "Exception"}
Reached(f) ==
    /\ \A i \in 1..Len(f.dirs) : f.dirs[i] \notin skip_dirs /\ ~DotName(f.dirs[i])
    /\ ~DotName(f.name)
PassesSelection(f) ==
    /\ NameExtension(f.name) \in supported_extensions
    /\ f.name \notin skip_files
    /\ ~(Len(f.name) >= 2 /\ f.name[Len(f.name)] = "lock")
    /\ f.size <= Ceiling
DocFor(f) == \E d \in Range(harvest.documents) : d.file_path = <<f.dirs, f.name>>

\* C9: a harvest of an existing root always returns; a file that cannot be
\* decoded, whose size cannot be read or whose read raises anything else
\* yields no document, and every other selected file yields one.
C9_UnreadableFilesSkipped ==
    (HarvestMade /\ harvest.exists) =>
        /\ harvest.outcome = "returned"
        /\ \A f \in Range(harvest.tree) : Unreadable(f) => ~DocFor(f)
        /\ \A f \in Range(harvest.tree) :
              (~Unreadable(f) /\ Reached(f) /\ PassesSelection(f)) => DocFor(f)

\* C9 witness: a selected file whose read raised and another selected file
\* that became the one document of the result.
C9_Witness ==
    /\ harvest.outcome = "returned" /\ Len(harvest.documents) = 1
    /\ \E f \in Range(harvest.tree), g \in Range(harvest.tree) :
          /\ f.read = "Exception" /\ f.stat = "ok" /\ Reached(f) /\ PassesSelection(f)
          /\ ~Unreadable(g) /\ DocFor(g)

\* C10: a file yields a document only if its extension is allowed, its name
\* is no lock/generated name, it does not end in .lock and its size is at
\* most the ceiling (5 MB by default); a file of exactly the ceiling is
\* included; none of the exclusions is fatal.
C10_FileSelection ==
    (HarvestMade /\ harvest.exists) =>
        /\ harvest.max_bytes = Ceiling
        /\ \A f \in Range(harvest.tree) : DocFor(f) => PassesSelection(f)
        /\ \A f \in Range(harvest.tree) :
              (f.size = Ceiling /\ ~Unreadable(f) /\ Reached(f) /\ PassesSelection(f))
                  => DocFor(f)
        /\ harvest.outcome = "returned"

\* C10 witness: under the default ceiling a file of exactly 5 MB is in the
\* result and a file one byte larger is not.
C10_Witness ==
    /\ harvest.outcome = "returned" /\ harvest.max_file_size_mb = <<>>
    /\ \E f \in Range(harvest.tree), g \in Range(harvest.tree) :
          /\ f.size = 5242880 /\ DocFor(f)
          /\ g.size = 5242881 /\ g.stat = "ok" /\ g.read = "ok" /\ Reached(g)
          /\ NameExtension(g.name) \in supported_extensions /\ ~DocFor(g)

\* C11: no returned document lies below a directory whose name is in the
\* skip set or starts with '.', and none is a file whose name starts with '.'.
C11_NoSkippedOrHiddenPaths ==
    \A d \in Range(harvest.documents) :
        /\ \A i \in 1..Len(d.file_path[1]) :
              d.file_path[1][i] \notin skip_dirs /\ ~DotName(d.file_path[1][i])
        /\ ~DotName(d.file_name)

\* C11 witness: a source file below a hidden directory stayed out and one
\* below an ordinary directory came back.
C11_Witness ==
    /\ harvest.outcome = "returned"
    /\ \E f \in Range(harvest.tree), g \in Range(harvest.tree) :
          /\ \E i \in 1..Len(f.dirs) : DotName(f.dirs[i])
          /\ PassesSelection(f) /\ ~Unreadable(f) /\ ~DocFor(f)
          /\ g.dirs = <<<<"src">>>> /\ DocFor(g)

\* C12: a harvest of a root that does not exist fails with the not-found
\* error (ValueError), having visited nothing and returning no document.
C12_MissingRootRejected ==
    (HarvestMade /\ ~harvest.exists) =>
        /\ harvest.outcome = "ValueError"
        /\ harvest.documents = <<>>
        /\ harvest.files_processed = 0
        /\ harvest.files_skipped = 0

\* C12 witness: a harvest of a missing root ended in the error.
C12_Witness == ~harvest.exists /\ harvest.outcome = "ValueError"

\* What the last chunking did, read off its record.
MaxChars == 3000
BlankDocs == {d \in Range(chunking.documents) : d.blank}
SplitterCalls == {c \in Range(chunking.calls) : c.step \in SplitterSteps}
ParserRegistry ==
    {"python", "javascript", "typescript", "java", "go", "rust", "cpp", "c", "csharp"}
GrammarOf(lang) == IF lang = "csharp" THEN "c_sharp" ELSE lang

\* C18: every chunk of the output, cut by the structural splitter or by the
\* text splitter, has at most 3000 characters.
C18_ChunksWithinMaxChars ==
    \A n \in Range(chunking.all_nodes) : n.chars <= MaxChars

\* C19: no splitter receives a document whose content is empty or
\* whitespace only, and no chunk of the output is cut from one.
C19_BlankDocumentsDropped ==
    /\ \A c \in SplitterCalls : \A d \in BlankDocs : d.id \notin Range(c.docs)
    /\ \A n \in Range(chunking.all_nodes) : \A d \in BlankDocs : n.doc # d.id

\* C20: the structural splitter is handed only documents whose language
\* is a key of the parser registry, with the registry's grammar for it
\* (c_sharp for csharp); the documents of any other language are split by
\* the text splitter only and no parser is looked up for them.
C20_StructuralOnlyForRegistered ==
    /\ \A c \in Range(chunking.calls) :
          c.step \in {"get_parser", "CodeSplitter"} => c.lang \in ParserRegistry
    /\ \A n \in Range(chunking.all_nodes) :
          n.by.kind = "CodeSplitter" =>
              /\ n.by.language \in ParserRegistry
              /\ n.by.parser = GrammarOf(n.by.language)
              /\ \E d \in Range(chunking.documents) :
                    d.id = n.doc /\ DocLanguage(d) = n.by.language
    /\ \A d \in Range(chunking.documents) :
          DocLanguage(d) \notin ParserRegistry =>
              /\ \A n \in NodesOfDoc(chunking.all_nodes, d) : n.by.kind = "SimpleNodeParser"
              /\ \A i \in CoveringCalls(d) : chunking.calls[i].step = "SimpleNodeParser"
              /\ Cardinality(CoveringCalls(d)) = 1

\* C20 witness: one call chunked a csharp document structurally with the
\* c_sharp grammar and a php document with the text splitter.
C20_Witness ==
    /\ chunking.outcome = "returned"
    /\ \E n, m \in Range(chunking.all_nodes) :
          /\ n.by.kind = "CodeSplitter" /\ n.by.language = "csharp"
          /\ n.by.parser = "c_sharp"
          /\ m.by.kind = "SimpleNodeParser"
          /\ \E d \in Range(chunking.documents) : d.id = m.doc /\ DocLanguage(d) = "php"

\* What the running ingestion call did, read off its frame.
IngestMade == ingest.fn # "none"
BlankUrl(u) == \A i \in 1..Len(u) : u[i] = " "
Happened(e) == \E i \in 1..Len(ingest.events) : ingest.events[i] = e
InIngestRepo == ingest.fn \in {"ingest_repo", "handle_ingestion"}
IngestRepoEnded == InIngestRepo /\ ingest.pc \in {"reload", "reranker", "swap", "finally", "done"}
Complete(h) == h.has_reranker = h.use_reranker
StageOf(e) ==
    CASE e \in {"git.Repo", "rmtree", "clone_from"} -> 1
      [] e = "parse_code_files" -> 2
      [] e = "chunk_documents_by_language" -> 3
      [] e \in {"get_vector_store", "insert"} -> 4
      [] OTHER -> 5
EntriesOf(before, nodes) ==
    [i \in 1..Len(nodes) |-> [id |-> Len(before) + i, node |-> nodes[i]]]

\* C13: a call of clone_repo, ingest_repo or handle_ingestion with an empty
\* or whitespace-only URL ends with the empty-URL error (raised as
\* ValueError, returned as a message by handle_ingestion) and nothing has
\* happened: no file-system or network operation, the clone directory, the
\* collection and the active retriever are what they were.
C13_BlankUrlRejected ==
    (IngestMade /\ BlankUrl(ingest.repo_url)) =>
        /\ ingest.pc \in {"clone", "done"}
        /\ ingest.pc = "clone" => ingest.fn = "clone_repo"
        /\ ingest.pc = "done" =>
              /\ ingest.error = "empty_url"
              /\ ingest.outcome =
                    IF ingest.fn = "handle_ingestion" THEN "returned" ELSE "ValueError"
        /\ ingest.events = <<>>
        /\ clones = ingest.clones_before
        /\ collection = ingest.collection_before
        /\ retriever = ingest.retriever_before

\* C13 witness: handle_ingestion was called with a whitespace-only URL and
\* force_clone while a clone was there to delete, and has returned.
C13_Witness ==
    /\ ingest.fn = "handle_ingestion" /\ ingest.repo_url = <<" ">> /\ ingest.force_clone
    /\ ingest.pc = "done" /\ ingest.error = "empty_url"
    /\ clones[repo_path_of(<<"repo">>)] # <<>>

\* C14: the operations of an ingestion happen in the order clone, harvest,
\* chunk, store, each stage only after the one before it; the store is
\* opened and written only with at least one document and one chunk; and
\* when the harvest or the chunking gave nothing, ingest_repo raises
\* ValueError and the collection is what it was before the call.
C14_StagesInOrder ==
    IngestMade =>
        /\ \A i, j \in 1..Len(ingest.events) :
              i < j => StageOf(ingest.events[i]) <= StageOf(ingest.events[j])
        /\ Happened("parse_code_files") =>
              Happened("git.Repo") \/ Happened("clone_from")
        /\ Happened("chunk_documents_by_language") => Happened("parse_code_files")
        /\ (Happened("get_vector_store") \/ Happened("insert")) =>
              /\ Happened("chunk_documents_by_language")
              /\ ingest.documents # <<>> /\ ingest.nodes # <<>>
        /\ collection # ingest.collection_before => Happened("insert")
        /\ ( /\ InIngestRepo /\ ingest.pc \in {"store", "insert", "finally", "done"}
             /\ Happened("parse_code_files")
             /\ \/ ingest.documents = <<>>
                \/ Happened("chunk_documents_by_language") /\ ingest.nodes = <<>> )
          => /\ ingest.raised = "ValueError"
             /\ ingest.pc \in {"finally", "done"}
             /\ collection = ingest.collection_before

\* C14 witness: ingest_repo harvested a document, the chunking made no
\* chunk of it, and the call ended with ValueError.
C14_Witness ==
    /\ ingest.fn = "ingest_repo" /\ ingest.pc = "done"
    /\ ingest.documents # <<>> /\ ingest.nodes = <<>>
    /\ ingest.outcome = "ValueError"

\* C15: no step removes or changes an entry of the collection, opening it
\* included, and when ingest_repo returns the collection is what it was
\* before the call followed by one new entry for each chunk, so that the
\* entries of a repository ingested n times are there n times.
C15_AppendOnly ==
    [][ /\ Len(collection') >= Len(collection)
        /\ SubSeq(collection', 1, Len(collection)) = collection
        /\ (ingest.pc = "insert" /\ ingest'.pc \in {"reload", "done"}
              /\ ingest'.raised = "none")
           => collection' = ingest.collection_before
                                \o EntriesOf(ingest.collection_before, ingest.nodes) ]_vars

\* C15 witness: the same repository has been ingested twice and each of its
\* chunks is in the collection twice.
C15_Witness ==
    /\ ingest.pc = "done" /\ ingest.outcome = "returned" /\ InIngestRepo
    /\ ingest.nodes # <<>>
    /\ \A k \in 1..Len(ingest.nodes) :
          Cardinality({i \in 1..Len(collection) : collection[i].node = ingest.nodes[k]}) = 2

\* C16: when handle_ingestion has ingested and reloaded, the active
\* retriever is a completely built one opened on the collection with every
\* entry of that ingestion in it, and a query that starts reads the active
\* retriever.
C16_ReloadedAfterWrites ==
    /\ [](( /\ ingest.fn = "handle_ingestion" /\ ingest.pc = "done"
            /\ ingest.reload = "ok" )
          => /\ ingest.written = Len(ingest.nodes) /\ ingest.nodes # <<>>
             /\ Complete(retriever[1])
             /\ retriever[1].entries
                    >= Len(ingest.collection_before) + Len(ingest.nodes)
             /\ \A i \in 1..Len(collection) :
                   collection[i].id > Len(ingest.collection_before)
                       => collection[i].id <= retriever[1].entries)
    /\ [][(query.pc = "idle" /\ query'.pc = "retrieve") => query'.handle = retriever]_vars

\* C16 witness: handle_ingestion has returned after an ingestion and a
\* reload, and the active retriever is no longer the one from before.
C16_Witness ==
    /\ ingest.fn = "handle_ingestion" /\ ingest.pc = "done" /\ ingest.reload = "ok"
    /\ retriever # ingest.retriever_before
    /\ Len(collection) > Len(ingest.collection_before)

\* C17: a query reads the active retriever once, when it starts, and both
\* stages of its search run on that object, which is completely built,
\* whatever handle_ingestion does meanwhile; and the active retriever
\* changes only in the one step that replaces it by the completely built
\* new object.
C17_QueryOnOneHandle ==
    /\ [](query.pc \in {"retrieve", "rerank"} \/ (query.pc = "done" /\ query.handle # <<>>)
          => /\ Len(query.handle) = 1 /\ Complete(query.handle[1])
             /\ query.stage1_self \in {<<>>, query.handle}
             /\ query.stage2_self \in {<<>>, query.handle})
    /\ [][ /\ (query.pc = "idle" /\ query'.pc = "retrieve") => query'.handle = retriever
           /\ (query.pc \in {"retrieve", "rerank"}) => query'.handle = query.handle
           /\ retriever' # retriever =>
                 /\ ingest.pc = "swap" /\ retriever' = ingest.built
                 /\ Complete(retriever'[1]) ]_vars

\* C17 witness: a query has run both stages on the retriever it read at its
\* start while handle_ingestion replaced the active one.
C17_Witness ==
    /\ query.pc = "done" /\ query.handle # <<>>
    /\ query.handle # retriever
    /\ query.stage1_self = query.handle /\ query.stage2_self = query.handle

\* C25: a search given its own rerank argument returns, whatever
\* use_reranker the retriever was built with, and its candidates went
\* through the reranker exactly when the argument is True and stage 1 found
\* something.
C25_RerankArgumentHonoured ==
    (Stage1Asked /\ call.rerank # None) =>
        /\ call.outcome = "returned"
        /\ call.reranker_calls = (IF call.rerank[1] /\ call.stage1 # <<>> THEN 1 ELSE 0)

\* C24: when ingest_repo raised inside handle_ingestion, at whatever stage,
\* or the reload after it raised, handle_ingestion returns its log and the
\* active retriever is the one from before the call, completely built.
C24_FailureKeepsHandle ==
    ( /\ ingest.fn = "handle_ingestion" /\ ingest.pc \in {"finally", "done"}
      /\ (ingest.raised # "none" \/ ingest.reload = "raised") )
    => /\ ingest.pc = "done" => ingest.outcome = "returned"
       /\ retriever = ingest.retriever_before
       /\ Len(retriever) = 1 /\ Complete(retriever[1])

\* C24 witness: handle_ingestion has returned after an ingestion that added
\* entries and a reload that raised.
C24_Witness ==
    /\ ingest.fn = "handle_ingestion" /\ ingest.pc = "done"
    /\ ingest.reload = "raised" /\ ingest.raised = "none"
    /\ Len(collection) > Len(ingest.collection_before)

\* C23: when handle_ingestion has returned, sys.stdout is bound to the
\* stream it was bound to before the call, and the returned log holds only
\* what that call's own ingestion printed.
C23_StdoutRestoredLogOwn ==
    (ingest.fn = "handle_ingestion" /\ ingest.pc = "done") =>
        /\ stdout.sys = "console"
        /\ ingest.log \subseteq {"ingest"}

\* the repository a URL names: its host, its owner and its name
HostOf(piece) ==
    IF piece \in {"https://github.com/", "git@github.com:"} THEN "github.com" ELSE piece
Repository(repo_url) ==
    LET named == SelectSeq(repo_url, LAMBDA t : t \notin {" ", "/", ".git", "?ref", "#frag"})
    IN [i \in 1..Len(named) |-> HostOf(named[i])]

StrictlyInside(path, inside) == below(path, inside) /\ inside # path

\* clone_repo has passed its tests on the URL and acted
CloneActed ==
    ingest.fn = "clone_repo" /\ ingest.pc = "done" /\ ingest.repo_name # <<>>

\* C21: for every accepted URL, with and without force_clone, the repo_path
\* clone_repo computes, and so every directory it deletes or clones into,
\* is a strict descendant of CLONE_DIR.
C21_RepoPathInsideCloneDir ==
    CloneActed =>
        /\ StrictlyInside(CLONE_DIR, ingest.local_path)
        /\ \A p \in ingest.touched : StrictlyInside(CLONE_DIR, p)

\* C22: the path clone_repo(url) returns holds a clone of the repository
\* that url names, so a repository of the same name under another owner is
\* never served from the first one's files.
C22_ReturnedPathHoldsNamedRepository ==
    (CloneActed /\ ingest.outcome = "returned") =>
        /\ clones[ingest.local_path] # <<>>
        /\ clones[ingest.local_path][1].valid
        /\ Repository(clones[ingest.local_path][1].origin) = Repository(ingest.repo_url)

====
